---- MODULE Spec2Model ----
(***************************************************************************)
(* Macro Cleaner: the cleaning pipeline of Core.py (clean_vba_macro, the   *)
(* macro extractor, the manifest sanitizer, the repacker, the process      *)
(* history) driven by the batch worker of widget.py.                       *)
(*                                                                         *)
(* A file on disk is a record [kind, tree, by]: kind is "absent", "raw"     *)
(* (bytes that are no zip archive), "partial" (an archive whose write      *)
(* stopped part-way) or "zip"; tree maps the archive's entry names to      *)
(* contents; by is who wrote the archive ("office" or "repack": the bytes  *)
(* of a repacked archive differ from those of the archive it was made of). *)
(* Chinese literals of the source are written <key>@zh, in ASCII.          *)
(***************************************************************************)
EXTENDS Integers, Sequences, FiniteSets, TLC

\* ------------------------------------------------------------ bounds
\* an initial container holds at most MaxEntries entries
MaxEntries == 2
\* clean_vba_macro is called at most MaxCalls times in a behaviour
MaxCalls == 2
\* at most MaxFaults I/O error conditions arise in a behaviour
MaxFaults == 1
\* a manifest text given to _clean_content_types has at most MaxText pieces
MaxText == 5
\* _clean_content_types is applied to one manifest at most MaxApply times
MaxApply == 2

\* ------------------------------------------------------------ texts
TEXTS_ZH ==
  [status_success |-> "status_success@zh", status_fail |-> "status_fail@zh",
   msg_file_not_found |-> "msg_file_not_found@zh",
   msg_unsupported_format |-> "msg_unsupported_format@zh",
   msg_invalid_format |-> "msg_invalid_format@zh",
   msg_unknown_doc_type |-> "msg_unknown_doc_type@zh",
   msg_no_macro_skip |-> "msg_no_macro_skip@zh",
   msg_no_macro_format |-> "msg_no_macro_format@zh",
   msg_save_failed |-> "msg_save_failed@zh",
   msg_macro_cleared_replace |-> "msg_macro_cleared_replace@zh",
   msg_macro_cleared |-> "msg_macro_cleared@zh",
   msg_no_macro |-> "msg_no_macro@zh",
   msg_exception |-> "msg_exception@zh"]

TEXTS_EN ==
  [status_success |-> "Success", status_fail |-> "Failed",
   msg_file_not_found |-> "File not found",
   msg_unsupported_format |-> "Unsupported format: {suffix}",
   msg_invalid_format |-> "Invalid file format",
   msg_unknown_doc_type |-> "Unknown document type",
   msg_no_macro_skip |-> "No macro in file, skipped",
   msg_no_macro_format |-> "Format does not support macros, treated as no macro",
   msg_save_failed |-> "Failed to save file",
   msg_macro_cleared_replace |-> "Macro cleared, original replaced, backup created",
   msg_macro_cleared |-> "Macro cleared ({size} bytes)",
   msg_no_macro |-> "No macro in file",
   msg_exception |-> "Error: {e}"]

\* t = TEXTS_EN if is_english else TEXTS_ZH
Texts(is_english) == IF is_english THEN TEXTS_EN ELSE TEXTS_ZH

\* str.format: the template and the value filled in ("" when there is none)
Format(template, arg) == <<template, arg>>

\* ------------------------------------------------------------ extensions
SUPPORTED_EXTS == {".docm", ".dotm", ".xlsm", ".xltm", ".pptm", ".potm"}

NO_MACRO_EXTS ==
  {".xlsx", ".xlsb", ".xltx", ".xls", ".docx", ".dotx", ".doc", ".pptx", ".potx",
   ".ppsx", ".ppt", ".odt", ".ods", ".odp", ".rtf", ".pdf", ".txt", ".csv", ".xml"}

\* str.lower on the suffixes the model uses
Lower(s) ==
  CASE s = ".XLSM" -> ".xlsm"
    [] s = ".Xlsx" -> ".xlsx"
    [] OTHER -> s

\* ------------------------------------------------------------ containers
_VBA_BIN_PATHS == <<"word/vbaProject.bin", "xl/vbaProject.bin", "ppt/vbaProject.bin">>

vba_paths_AnyStream ==
  [word |-> "xl/vbaProject.bin", excel |-> "word/vbaProject.bin",
   ppt |-> "ppt/vbaProject.bin"]

\* lines 336-340: the macro stream of each document type
vba_paths ==
  [word |-> "word/vbaProject.bin", excel |-> "xl/vbaProject.bin",
   ppt |-> "ppt/vbaProject.bin"]

CONTENT_TYPES == "[Content_Types].xml"

\* the entries the containers of the model are made of: a whole first family
\* (its macro stream with a .rels beside it and with the relationship part
\* Office writes, under _rels), a second family with a part and a macro stream,
\* the macro stream of the third
EntryNames ==
  {CONTENT_TYPES,
   "word/document.xml", "word/vbaProject.bin", "word/vbaProject.bin.rels",
   "word/_rels/vbaProject.bin.rels",
   "xl/workbook.xml", "xl/vbaProject.bin",
   "ppt/vbaProject.bin"}

\* the top-level directory an entry lies in ("" for a top-level file)
TopDir(n) ==
  CASE n \in {"word/document.xml", "word/vbaProject.bin", "word/vbaProject.bin.rels",
              "word/_rels/vbaProject.bin.rels"}
         -> "word"
    [] n \in {"xl/workbook.xml", "xl/vbaProject.bin", "xl/vbaProject.bin.rels"}
         -> "xl"
    [] n \in {"ppt/presentation.xml", "ppt/vbaProject.bin", "ppt/vbaProject.bin.rels"}
         -> "ppt"
    [] OTHER -> ""

\* vba_path.parent / (vba_path.name + ".rels")
RelsOf(vba) ==
  CASE vba = "word/vbaProject.bin" -> "word/vbaProject.bin.rels"
    [] vba = "xl/vbaProject.bin" -> "xl/vbaProject.bin.rels"
    [] vba = "ppt/vbaProject.bin" -> "ppt/vbaProject.bin.rels"

EmptyTree == [n \in {} |-> ""]

\* (extract_path / d).exists(): extractall makes a directory for each file under it
DirExists(tree, d) == \E n \in DOMAIN tree : TopDir(n) = d

\* Path.unlink on a file of the working directory
Unlink(tree, n) == [m \in (DOMAIN tree) \ {n} |-> tree[m]]

\* st_size of a macro stream, by content
StSize(c) ==
  CASE c = "vba-word" -> 4096
    [] c = "vba-xl" -> 2048
    [] c = "vba-ppt" -> 1024
    [] OTHER -> 512

\* the manifest of a macro-enabled document, as Office writes it (the pieces of
\* text a manifest is made of are listed with _clean_content_types below)
MANIFEST_DOCM == <<"DU", "E", "DB", "E", "OW", "E", "OU", "E">>

\* the content an entry of an initial container has
InitContent(n) ==
  CASE n = "word/vbaProject.bin" -> "vba-word"
    [] n = "xl/vbaProject.bin" -> "vba-xl"
    [] n = "ppt/vbaProject.bin" -> "vba-ppt"
    [] n = CONTENT_TYPES -> MANIFEST_DOCM
    [] n \in {"word/vbaProject.bin.rels", "word/_rels/vbaProject.bin.rels",
              "xl/vbaProject.bin.rels", "ppt/vbaProject.bin.rels"} -> "rels"
    [] OTHER -> "part"

Absent == [kind |-> "absent", tree |-> EmptyTree, by |-> ""]
Raw == [kind |-> "raw", tree |-> EmptyTree, by |-> ""]
Partial == [kind |-> "partial", tree |-> EmptyTree, by |-> "repack"]
Zip(tree) == [kind |-> "zip", tree |-> tree, by |-> "office"]

InitContainers ==
  {Zip([n \in S |-> InitContent(n)]) :
     S \in {T \in SUBSET EntryNames : Cardinality(T) <= MaxEntries}}

\* ------------------------------------------------------------ paths
\* a path is [stem, bk, ext]: the file <stem>(_backup)^bk<ext> of one directory
P_a == [stem |-> "a", bk |-> 0, ext |-> ".xlsm"]
P_abak == [stem |-> "a", bk |-> 1, ext |-> ".xlsm"]
P_x == [stem |-> "b", bk |-> 0, ext |-> ".xlsx"]
P_u == [stem |-> "b", bk |-> 0, ext |-> ".dat"]

InputPaths == {P_a, P_abak, P_x, P_u}

BackupPath_OtherStem(p) == [p EXCEPT !.stem = "b", !.bk = @ + 1]

\* input_path.parent / f"{input_path.stem}_backup{input_path.suffix}"
BackupPath(p) == [p EXCEPT !.bk = @ + 1]

Paths == InputPaths \cup {BackupPath(p) : p \in InputPaths}

\* ------------------------------------------------------------ file metadata
NoMd5 == <<>>

\* _get_file_meta(...)['md5']: the digest of the bytes, '' when there is no file
get_file_meta(content) ==
  IF content.kind = "absent" THEN NoMd5 ELSE <<"md5", content>>

\* ------------------------------------------------------------ macro parser
\* What oletools' VBA_Parser does on one target (the whole document, or the
\* extracted vbaProject.bin): the parser is outside the repository, so its
\* behaviour is an input.
\*   open_raises   VBA_Parser(path) raises
\*   macros_raises parser.extract_macros() raises
\*   macros        the vba_code of each tuple extract_macros() yields
\*   has_all       hasattr(parser, "get_vba_code_all_modules")
\*   all_raises    get_vba_code_all_modules() raises
\*   all_code      what get_vba_code_all_modules() returns
\*   projects      code_str of each module of parser.vba_projects
ParserView(o, mr, m, ha, ar, ac, pr) ==
  [open_raises |-> o, macros_raises |-> mr, macros |-> m, has_all |-> ha,
   all_raises |-> ar, all_code |-> ac, projects |-> pr]

ParserViews ==
  {ParserView(TRUE, FALSE, <<>>, FALSE, FALSE, "", <<>>),
   ParserView(FALSE, TRUE, <<>>, FALSE, FALSE, "", <<>>),
   ParserView(FALSE, FALSE, <<"Sub A", "", "Sub B">>, TRUE, FALSE, "Sub All", <<"Sub Raw">>),
   ParserView(FALSE, FALSE, <<"">>, TRUE, FALSE, "Sub All", <<"Sub Raw">>),
   ParserView(FALSE, FALSE, <<>>, TRUE, TRUE, "", <<"", "Sub Raw">>),
   ParserView(FALSE, FALSE, <<>>, TRUE, FALSE, "", <<"Sub Raw">>),
   ParserView(FALSE, FALSE, <<>>, FALSE, FALSE, "", <<"Sub Raw 1", "", "Sub Raw 2">>),
   ParserView(FALSE, FALSE, <<>>, FALSE, FALSE, "", <<>>)}

V_open_raises == ParserView(TRUE, FALSE, <<>>, FALSE, FALSE, "", <<>>)
V_modules == ParserView(FALSE, FALSE, <<"Sub A", "", "Sub B">>, TRUE, FALSE, "Sub All", <<"Sub Raw">>)
V_nothing == ParserView(FALSE, FALSE, <<>>, FALSE, FALSE, "", <<>>)

\* What the parser does on a document: on the whole document (whole) and, when
\* that pass yields nothing, on its extracted vbaProject.bin (bin). The parser is
\* a function of the bytes it is given: the same document parses the same way
\* each time.
PipelineParsers ==
  {[whole |-> V_open_raises, bin |-> V_nothing],
   [whole |-> V_modules, bin |-> V_nothing],
   [whole |-> V_nothing, bin |-> V_open_raises],
   [whole |-> V_nothing, bin |-> V_modules],
   [whole |-> V_nothing, bin |-> V_nothing]}

\* [x for x in seq if x]
RECURSIVE NonEmpty(_)
NonEmpty(seq) ==
  IF seq = <<>> THEN <<>>
  ELSE IF Head(seq) = "" THEN NonEmpty(Tail(seq))
       ELSE <<Head(seq)>> \o NonEmpty(Tail(seq))

extract_vba_from_parser_EveryStrategy(v) ==
  NonEmpty(v.macros)
    \o (IF v.has_all /\ ~v.all_raises /\ v.all_code # "" THEN <<v.all_code>> ELSE <<>>)
    \o NonEmpty(v.projects)

\* _extract_vba_from_parser(parser): the list of code bodies
extract_vba_from_parser(v) ==
  LET s1 == NonEmpty(v.macros)
      s2 == IF s1 = <<>> /\ v.has_all /\ ~v.all_raises /\ v.all_code # ""
            THEN <<v.all_code>> ELSE s1
      s3 == IF s2 = <<>> /\ v.projects # <<>> THEN NonEmpty(v.projects) ELSE s2
  IN  s3

SEPARATOR == "\n\n---\n\n"

\* "\n\n---\n\n".join(out): the bodies with the separator between them
RECURSIVE Join(_)
Join(out) ==
  IF Len(out) <= 1 THEN out
  ELSE <<Head(out), SEPARATOR>> \o Join(Tail(out))

PLACEHOLDER_NO_OLETOOLS == <<"(install oletools to see the macro code)@zh">>
PLACEHOLDER_NO_CODE == <<"(no visible macro code)@zh">>
PlaceholderFailed(e) == <<"(extraction failed: {e})@zh", e>>

JoinOrPlaceholder_OnePlaceholder(out) ==
  IF out # <<>> THEN Join(out) ELSE PLACEHOLDER_NO_OLETOOLS

\* "\n\n---\n\n".join(out) if out else "(无可见宏代码)"
JoinOrPlaceholder(out) == IF out # <<>> THEN Join(out) ELSE PLACEHOLDER_NO_CODE

\* ------------------------------------------------------------ manifest
\* The text of [Content_Types].xml is a sequence of pieces, each a fixed string:
\*   "OW"  <Override PartName="/word/vbaProject.bin"      (so for "OX": xl, "OP": ppt)
\*   "DB"  <Default Extension="bin"
\*   "OW1" <Override PartName="/word/vbaPro     "OW2"  ject.bin"     ("OW1" "OW2" is "OW")
\*   "OWr" <Override ContentType="..." PartName="/word/vbaProject.bin"
\*         (a macro declaration that does not begin with the text the pattern wants:
\*         other attribute order, other spacing, other quotes)
\*   "OU"  <Override PartName="/word/styles.xml" ContentType="..."
\*   "DU"  <Default Extension="xml" ContentType="..."
\*   "E"   />            (the end of a self-closing element; no other piece holds "/>")
\*   "CL"  ></Override> or ></Default>  (the end of an element written with an end tag)
\*   "NL"  a line feed
\* A file that is not there is Missing; one read_text cannot decode is Unreadable.
Pieces == {"OW", "OX", "OP", "DB", "OW1", "OW2", "OWr", "OU", "DU", "E", "CL", "NL"}

Missing == <<"missing">>
Unreadable == <<"unreadable">>

\* the strings of two texts are equal iff the texts are equal once "OW1" "OW2" is
\* written "OW"
RECURSIVE Fuse(_)
Fuse(t) ==
  IF Len(t) < 2 THEN t
  ELSE IF t[1] = "OW1" /\ t[2] = "OW2"
       THEN <<"OW">> \o Fuse(SubSeq(t, 3, Len(t)))
       ELSE <<t[1]>> \o Fuse(Tail(t))

\* the place of the first "/>" of t after place k, or 0
FirstEnd(t, k) ==
  IF \E j \in (k + 1)..Len(t) : t[j] = "E"
  THEN CHOOSE j \in (k + 1)..Len(t) :
         t[j] = "E" /\ \A m \in (k + 1)..(j - 1) : t[m] # "E"
  ELSE 0

\* re.sub(head + r'.*?/>', '', t, flags=re.DOTALL): each match, found from the
\* left, runs from the head to the first "/>" after it, whatever lies between
RECURSIVE Sub(_, _)
Sub(head, t) ==
  IF t = <<>> THEN <<>>
  ELSE IF t[1] = head /\ FirstEnd(t, 1) # 0
       THEN Sub(head, SubSeq(t, FirstEnd(t, 1) + 1, Len(t)))
       ELSE <<t[1]>> \o Sub(head, Tail(t))

\* re.sub(r'\n\s*\n', '\n', t): a run of line feeds becomes one
RECURSIVE Collapse(_)
Collapse(t) ==
  IF Len(t) < 2 THEN t
  ELSE IF t[1] = "NL" /\ t[2] = "NL"
       THEN Collapse(Tail(t))
       ELSE <<t[1]>> \o Collapse(Tail(t))

\* the four patterns of _clean_content_types, in the order they are applied
PATTERNS == <<"OW", "OX", "OP", "DB">>

\* the element of a one-element set: The({F(u) : u \in {e}}) is F(e), with e
\* evaluated once however often F uses its argument
The(S) == CHOOSE r \in S : TRUE

RECURSIVE SubAll(_, _)
SubAll(patterns, t) ==
  IF patterns = <<>> THEN t
  ELSE The({SubAll(Tail(patterns), u) : u \in {Fuse(Sub(Head(patterns), t))}})

\* _clean_content_types on the manifest: read_text, the four substitutions, the
\* empty lines, write_text; any exception is swallowed and nothing is written
clean_content_types(content) ==
  IF content \in {Missing, Unreadable} THEN content
  ELSE The({Collapse(u) : u \in {SubAll(PATTERNS, v) : v \in {Fuse(content)}}})

\* lines 391-393: the manifest of the working directory, sanitized if it exists
SanitizeTree(tree) ==
  IF CONTENT_TYPES \in DOMAIN tree
  THEN [tree EXCEPT ![CONTENT_TYPES] = clean_content_types(@)]
  ELSE tree

\* ------------------------------------------------------------ state
VARIABLES
  fs,               \* the directory: path -> file content
  tempDir,          \* the macro_clean_ directory of the running call exists
  extracted,        \* the files under temp_dir/extracted
  tempBin,          \* the mkstemp file of _extract_vba_code exists
  oletools,         \* "installed" or "missing", "unknown" until the first import
  olevba,           \* how the parser behaves on each document parsed so far
  report_history,   \* Core._report_history
  last_vba_size,    \* Core._last_vba_size
  replace_original, \* checkBox_2.isChecked()
  generate_report,  \* checkBox.isChecked()
  is_english,       \* Widget._is_english
  file_paths,       \* list(Widget._file_path_map.keys()), CleanMacroWorker._file_paths
  i,                \* files of the batch done
  sun_count,        \* sum of the return values
  total_vba_size,   \* sum of get_last_vba_size()
  wpc,              \* the worker: "idle", "running", "crashed"
  finished_result,  \* the arguments finished_result was emitted with, or <<>>
  pc,               \* where the running clean_vba_macro call is
  input_path,       \* its input_path
  report_data,      \* its report_data
  vba_size,         \* its vba_size
  vba_bin_path,     \* vba_bin_path of the _extract_vba_code call it makes
  ret,              \* the value it returns
  err,              \* str(e) of the exception raised
  saved,            \* the places of report_history that hold report_data itself
  fs0,              \* the directory when the call began
  faults,           \* I/O errors raised so far
  calls,            \* clean_vba_macro calls begun so far
  manifest,         \* a [Content_Types].xml that _clean_content_types is given
  manifest0,        \* that file as it was at first
  applied,          \* how often _clean_content_types has run on it
  file_path_map,    \* Widget._file_path_map: the listed paths, in the dict's order
  pushButton,       \* the start-cleaning button is enabled
  pushButton_2,     \* the select button is enabled
  dialog,           \* the modal dialog that is open: "none", "confirm", "select"
  clicked_paths,    \* file_paths of _on_push_button_clicked while it waits in msg.exec()
  spc,              \* ScanFolderWorker.run: "idle", "walk", "listed"
  to_add,           \* ScanFolderWorker.run: the files found
  queue,            \* signals emitted by the workers, not yet delivered to the window
  running,          \* CleanMacroWorker.run started and not yet at its last line
  mode,             \* two runs side by side: "off", "free", "A", "B"
  pre,              \* the other run's state before the step being compared
  target            \* the state the other run has to reach with its step

vars ==
  <<fs, tempDir, extracted, tempBin, oletools, olevba, report_history, last_vba_size, replace_original,
    generate_report, is_english, file_paths, i, sun_count, total_vba_size, wpc,
    finished_result, pc, input_path, report_data, vba_size, vba_bin_path, ret, err,
    saved, fs0, faults, calls, manifest, manifest0, applied, file_path_map,
    pushButton, pushButton_2, dialog, clicked_paths, spc, to_add, queue, running,
    mode, pre, target>>

sanitizer == <<manifest, manifest0, applied>>

window == <<file_path_map, pushButton, pushButton_2, dialog, clicked_paths, spc,
            to_add, queue, running>>

pairing == <<mode, pre, target>>

gui == <<replace_original, generate_report, is_english>>
worker == <<file_paths, i, sun_count, total_vba_size, wpc, finished_result>>

NoPath == <<>>
NoMessage == Format("", "")

NewReport_FoundByDefault(p, en) ==
  [file_path |-> p, status |-> Texts(en).status_fail, vba_found |-> TRUE,
   vba_size |-> 0, vba_code |-> <<>>, output_path |-> NoPath, message |-> NoMessage,
   original_md5 |-> NoMd5, output_md5 |-> NoMd5, is_english |-> en]

\* lines 268-286: report_data as clean_vba_macro creates it
NewReport(p, en) ==
  [file_path |-> p, status |-> Texts(en).status_fail, vba_found |-> FALSE,
   vba_size |-> 0, vba_code |-> <<>>, output_path |-> NoPath, message |-> NoMessage,
   original_md5 |-> NoMd5, output_md5 |-> NoMd5, is_english |-> en]

NoReport == NewReport(P_a, FALSE)

\* list(self._file_path_map.keys()): distinct paths, in the dict's order
Batches ==
  {b \in UNION {[1..n -> InputPaths] : n \in 1..MaxCalls} :
     \A j, k \in DOMAIN b : j # k => b[j] # b[k]}

\* the directory at the start: a.xlsm is missing, no archive or any container;
\* a_backup.xlsm may be there already; b.xlsx and b.dat are there
InitDirs ==
  {[p \in Paths |->
      IF p = P_a THEN ca
      ELSE IF p = P_abak THEN cb
      ELSE IF p \in {P_x, P_u} THEN Raw
      ELSE Absent] :
     ca \in InitContainers \cup {Absent, Raw}, cb \in {Absent, Raw}}

NoSnap == <<>>

\* one run is followed, none beside it
Unpaired ==
  /\ mode = "off"
  /\ pre = NoSnap
  /\ target = NoSnap

\* the process after import and Widget.__init__, before any event
InitProcess ==
  /\ file_path_map = <<>>
  /\ pushButton = TRUE
  /\ pushButton_2 = TRUE
  /\ dialog = "none"
  /\ clicked_paths = <<>>
  /\ spc = "idle"
  /\ to_add = {}
  /\ queue = <<>>
  /\ running = 0
  /\ tempDir = FALSE
  /\ extracted = EmptyTree
  /\ tempBin = FALSE
  /\ oletools = "unknown"
  /\ olevba = {}
  /\ report_history = <<>>
  /\ last_vba_size = 0
  /\ i = 0
  /\ sun_count = 0
  /\ total_vba_size = 0
  /\ wpc = "idle"
  /\ finished_result = <<>>
  /\ pc = "none"
  /\ input_path = P_a
  /\ report_data = NoReport
  /\ vba_size = 0
  /\ vba_bin_path = "None"
  /\ ret = 0
  /\ err = ""
  /\ saved = {}
  /\ fs0 = fs
  /\ faults = 0
  /\ calls = 0

Init ==
  /\ fs \in InitDirs
  /\ replace_original \in BOOLEAN
  /\ generate_report \in BOOLEAN
  /\ is_english \in BOOLEAN
  /\ file_paths \in Batches
  /\ InitProcess
  /\ manifest = Missing
  /\ manifest0 = Missing
  /\ applied = 0
  /\ Unpaired

\* ------------------------------------------------------------ the batch worker
CanFault == faults < MaxFaults

\* what lives only while a call runs, as it is between calls
LocalsGone ==
  /\ extracted' = EmptyTree
  /\ report_data' = NoReport
  /\ vba_size' = 0
  /\ vba_bin_path' = "None"
  /\ err' = ""
  /\ saved' = {}

\* Widget._on_push_button_clicked: a worker is made for the listed files and
\* started (the button is disabled until its finished_result arrives)
on_push_button_clicked ==
  /\ wpc = "idle"
  /\ pc = "none"
  /\ Len(file_paths) <= MaxCalls - calls
  /\ i' = 0
  /\ sun_count' = 0
  /\ total_vba_size' = 0
  /\ finished_result' = <<>>
  /\ wpc' = "running"
  /\ UNCHANGED <<fs, tempDir, extracted, tempBin, oletools, olevba, report_history,
                 last_vba_size, gui,
                 file_paths, pc, input_path, report_data, vba_size, vba_bin_path, ret,
                 err, saved, fs0, faults, calls, sanitizer, window, pairing>>

\* CleanMacroWorker.run, line 78: Core.clean_vba_macro(path, ...) is entered
run_Call ==
  /\ wpc = "running"
  /\ pc = "none"
  /\ i < Len(file_paths)
  /\ pc' = "start"
  /\ input_path' = file_paths[i + 1]
  /\ calls' = calls + 1
  /\ fs0' = fs
  /\ UNCHANGED <<fs, tempDir, extracted, tempBin, oletools, olevba, report_history,
                 last_vba_size, gui,
                 worker, report_data, vba_size, vba_bin_path, ret, err, saved, faults,
                 sanitizer, window, pairing>>

\* CleanMacroWorker.run, lines 78-80: the call has returned
run_NextStep ==
  /\ wpc = "running"
  /\ pc = "returned"
  /\ sun_count' = sun_count + ret
  /\ total_vba_size' = total_vba_size + last_vba_size
  /\ i' = i + 1
  /\ pc' = "none"
  /\ LocalsGone
  /\ ret' = 0
  /\ UNCHANGED <<fs, tempDir, tempBin, oletools, olevba, report_history,
                 last_vba_size, gui, file_paths,
                 wpc, finished_result, input_path, fs0, faults, calls, sanitizer, pairing>>

run_Next == run_NextStep /\ UNCHANGED window

\* CleanMacroWorker.run, line 81, and Widget._on_clean_finished
run_FinishStep ==
  /\ wpc = "running"
  /\ pc = "none"
  /\ i = Len(file_paths)
  /\ finished_result' = <<sun_count, total_vba_size>>
  /\ wpc' = "idle"
  /\ UNCHANGED <<fs, tempDir, extracted, tempBin, oletools, olevba, report_history,
                 last_vba_size, gui,
                 file_paths, i, sun_count, total_vba_size, pc, input_path, report_data,
                 vba_size, vba_bin_path, ret, err, saved, fs0, faults, calls, sanitizer, pairing>>

run_Finish == run_FinishStep /\ UNCHANGED window

\* ------------------------------------------------------------ clean_vba_macro
\* the frame of a step of the call that touches no file
CallFrame == UNCHANGED <<gui, worker, input_path, fs0, calls, sanitizer, window, pairing>>


ReturnOf_AnySuccess(outcome) ==
  IF outcome \in {"MacroCleared", "NoMacroFound", "NoMacroByFormat"} THEN 1 ELSE 0

\* the value of the return statement each outcome ends with (lines 292, 309,
\* 314, 333, 353, 388, 408, 421, 425, 433)
ReturnOf(outcome) == IF outcome = "MacroCleared" THEN 1 ELSE 0

\* "_save_report([report_data], generate_report); return ..." is reached with rd
ToSave(rd, outcome) ==
  /\ report_data' = rd
  /\ ret' = ReturnOf(outcome)
  /\ pc' = "save"

\* an exception e leaves the try block
ToExcept(rd, e) ==
  /\ CanFault
  /\ faults' = faults + 1
  /\ report_data' = rd
  /\ err' = e
  /\ pc' = "except"

\* lines 231-324: the pre-checks, the original's metadata, the temporary directory
clean_Start ==
  /\ pc = "start"
  /\ last_vba_size' = 0
  /\ saved' = {}
  /\ LET t == Texts(is_english)
         rd == NewReport(input_path, is_english)
         c == fs[input_path]
         suffix_lower == Lower(input_path.ext)
         meta == [rd EXCEPT !.original_md5 = get_file_meta(c)]
     IN  \/ /\ c.kind = "absent"
            /\ ToSave([rd EXCEPT !.message = Format(t.msg_file_not_found, "")],
                      "FileNotFound")
            /\ UNCHANGED <<tempDir, err, faults>>
         \/ /\ c.kind # "absent"
            /\ suffix_lower \in NO_MACRO_EXTS
            /\ ToSave([meta EXCEPT !.status = t.status_success,
                                   !.message = Format(t.msg_no_macro_format, ""),
                                   !.output_path = <<input_path>>,
                                   !.output_md5 = get_file_meta(c)], "NoMacroByFormat")
            /\ UNCHANGED <<tempDir, err, faults>>
         \/ /\ c.kind # "absent"
            /\ suffix_lower \notin NO_MACRO_EXTS
            /\ suffix_lower \notin SUPPORTED_EXTS
            /\ ToSave([rd EXCEPT !.message =
                         Format(t.msg_unsupported_format, input_path.ext)],
                      "UnsupportedFormat")
            /\ UNCHANGED <<tempDir, err, faults>>
         \/ /\ c.kind # "absent"
            /\ suffix_lower \notin NO_MACRO_EXTS
            /\ suffix_lower \in SUPPORTED_EXTS
            /\ report_data' = meta
            /\ tempDir' = TRUE
            /\ pc' = "unpack"
            /\ UNCHANGED <<ret, err, faults>>
         \/ /\ c.kind # "absent"
            /\ suffix_lower \in NO_MACRO_EXTS \cup SUPPORTED_EXTS
            /\ ToExcept(rd, "stat failed")
            /\ UNCHANGED <<tempDir, ret>>
  /\ UNCHANGED <<fs, extracted, tempBin, oletools, olevba, report_history, vba_size,
                 vba_bin_path>>
  /\ CallFrame

\* lines 326-333: zipfile.ZipFile(input_path, 'r') and zip_ref.extractall(extract_path);
\* only BadZipFile is caught there: a file that cannot be read (OSError), like an
\* entry that cannot be extracted, goes to the handler of line 430
clean_Unpack ==
  /\ pc = "unpack"
  /\ LET t == Texts(is_english)
         c == fs[input_path]
     IN  \/ /\ c.kind # "zip"
            /\ ToSave([report_data EXCEPT !.message = Format(t.msg_invalid_format, "")],
                      "InvalidFormat")
            /\ UNCHANGED <<extracted, err, faults>>
         \/ /\ c.kind # "zip"
            /\ ToExcept(report_data, "open failed")
            /\ UNCHANGED <<extracted, ret>>
         \/ /\ c.kind = "zip"
            /\ extracted' = c.tree
            /\ pc' = "classify"
            /\ UNCHANGED <<report_data, ret, err, faults>>
         \/ /\ c.kind = "zip"
            /\ ToExcept(report_data, "extractall failed")
            /\ UNCHANGED <<extracted, ret>>
  /\ UNCHANGED <<fs, tempDir, tempBin, oletools, olevba, report_history,
                 last_vba_size, vba_size,
                 vba_bin_path, saved>>
  /\ CallFrame

DocType_ByLocale(tree) ==
  IF is_english /\ DirExists(tree, "xl") THEN "excel"
  ELSE IF DirExists(tree, "word") THEN "word"
  ELSE IF DirExists(tree, "xl") THEN "excel"
  ELSE IF DirExists(tree, "ppt") THEN "ppt"
  ELSE "None"

\* lines 342-348: the document type, by the first directory that exists
DocType(tree) ==
  IF DirExists(tree, "word") THEN "word"
  ELSE IF DirExists(tree, "xl") THEN "excel"
  ELSE IF DirExists(tree, "ppt") THEN "ppt"
  ELSE "None"

AfterNoMacro_Repacks == "repack"

\* lines 378-388: with no macro stream the record is saved and the call returns;
\* nothing is repacked
AfterNoMacro == "save"

\* lines 336-361 and 378-388: the document type, the macro stream of that type
clean_Classify ==
  /\ pc = "classify"
  /\ LET t == Texts(is_english)
         doc_type == DocType(extracted)
     IN  \/ /\ doc_type = "None"
            /\ ToSave([report_data EXCEPT !.message = Format(t.msg_unknown_doc_type, "")],
                      "UnknownDocType")
            /\ UNCHANGED vba_size
         \/ /\ doc_type # "None"
            /\ vba_paths[doc_type] \notin DOMAIN extracted
            /\ report_data' =
                 [report_data EXCEPT !.status = t.status_success,
                                     !.message = Format(t.msg_no_macro_skip, ""),
                                     !.output_path = <<input_path>>,
                                     !.output_md5 = get_file_meta(fs[input_path])]
            /\ ret' = ReturnOf("NoMacroFound")
            /\ pc' = AfterNoMacro
            /\ UNCHANGED vba_size
         \/ /\ doc_type # "None"
            /\ vba_paths[doc_type] \in DOMAIN extracted
            /\ vba_size' = StSize(extracted[vba_paths[doc_type]])
            /\ pc' = "extract"
            /\ UNCHANGED <<report_data, ret>>
  /\ UNCHANGED <<fs, tempDir, extracted, tempBin, oletools, olevba, report_history,
                 last_vba_size,
                 vba_bin_path, err, saved, faults>>
  /\ CallFrame

\* ------------------------------------------------------------ _extract_vba_code
FirstIn_LastListed(names, tree) ==
  IF \E k \in DOMAIN names : names[k] \in DOMAIN tree
  THEN names[CHOOSE k \in DOMAIN names :
               /\ names[k] \in DOMAIN tree
               /\ \A j \in DOMAIN names : names[j] \in DOMAIN tree => j <= k]
  ELSE "None"

\* lines 176-183: the first of _VBA_BIN_PATHS in zf.namelist()
RECURSIVE FirstIn(_, _)
FirstIn(names, tree) ==
  IF names = <<>> THEN "None"
  ELSE IF Head(names) \in DOMAIN tree THEN Head(names)
       ELSE FirstIn(Tail(names), tree)

\* VBA_Parser(path) or parser.extract_macros() raises on this target
ParserRaises(v) == v.open_raises \/ v.macros_raises

ParserError(v) == IF v.open_raises THEN "VBA_Parser failed" ELSE "extract_macros failed"

\* how the parser behaves on document doc: as before if it was parsed before
ParsersFor(doc) ==
  IF \E e \in olevba : e.doc = doc
  THEN {e.parser : e \in {x \in olevba : x.doc = doc}}
  ELSE PipelineParsers

\* lines 147-184: the import, the pass over the whole document, the temporary file
extract_Whole ==
  /\ pc = "extract"
  /\ LET doc == fs[input_path]
         bin == FirstIn(_VBA_BIN_PATHS, doc.tree)
     IN  \/ /\ oletools \in {"unknown", "missing"}
            /\ oletools' = "missing"
            /\ report_data' = [report_data EXCEPT !.vba_code = PLACEHOLDER_NO_OLETOOLS]
            /\ pc' = "strip"
            /\ UNCHANGED <<tempBin, vba_bin_path, olevba>>
         \/ /\ oletools \in {"unknown", "installed"}
            /\ oletools' = "installed"
            /\ \E p \in ParsersFor(doc) :
                 /\ olevba' = olevba \cup {[doc |-> doc, parser |-> p]}
                 /\ ParserRaises(p.whole)
                 /\ report_data' =
                      [report_data EXCEPT
                         !.vba_code = PlaceholderFailed(ParserError(p.whole))]
                 /\ pc' = "strip"
                 /\ UNCHANGED <<tempBin, vba_bin_path>>
         \/ /\ oletools \in {"unknown", "installed"}
            /\ oletools' = "installed"
            /\ \E p \in ParsersFor(doc) :
                 /\ olevba' = olevba \cup {[doc |-> doc, parser |-> p]}
                 /\ ~ParserRaises(p.whole)
                 /\ extract_vba_from_parser(p.whole) # <<>>
                 /\ report_data' =
                      [report_data EXCEPT
                         !.vba_code = Join(extract_vba_from_parser(p.whole))]
                 /\ pc' = "strip"
                 /\ UNCHANGED <<tempBin, vba_bin_path>>
         \/ /\ oletools \in {"unknown", "installed"}
            /\ oletools' = "installed"
            /\ \E p \in ParsersFor(doc) :
                 /\ olevba' = olevba \cup {[doc |-> doc, parser |-> p]}
                 /\ ~ParserRaises(p.whole)
                 /\ extract_vba_from_parser(p.whole) = <<>>
                 /\ vba_bin_path' = bin
                 /\ IF doc.kind = "zip" /\ bin # "None"
                    THEN /\ tempBin' = TRUE
                         /\ pc' = "extract_bin"
                         /\ UNCHANGED report_data
                    ELSE /\ report_data' =
                              [report_data EXCEPT !.vba_code = PLACEHOLDER_NO_CODE]
                         /\ pc' = "strip"
                         /\ UNCHANGED tempBin
  /\ UNCHANGED <<fs, tempDir, extracted, report_history, last_vba_size, vba_size, ret,
                 err, saved, faults>>
  /\ CallFrame

TempBinAfter_KeptOnRaise(raised) == raised

\* lines 191-201 and 208-218: the temporary file after the finally blocks
TempBinAfter(raised) == FALSE

\* lines 185-219: the stream is written to the temporary file and parsed there;
\* a failure to write it ends as a parser that raises does
extract_Bin ==
  /\ pc = "extract_bin"
  /\ \E p \in ParsersFor(fs[input_path]) :
       \/ /\ ParserRaises(p.bin)
          /\ report_data' = [report_data EXCEPT !.vba_code = PLACEHOLDER_NO_CODE]
          /\ tempBin' = TempBinAfter(TRUE)
       \/ /\ ~ParserRaises(p.bin)
          /\ report_data' =
               [report_data EXCEPT
                  !.vba_code = JoinOrPlaceholder(extract_vba_from_parser(p.bin))]
          /\ tempBin' = TempBinAfter(FALSE)
  /\ pc' = "strip"
  /\ UNCHANGED <<fs, tempDir, extracted, oletools, olevba, report_history,
                 last_vba_size, vba_size, vba_bin_path, ret, err, saved, faults>>
  /\ CallFrame

\* ------------------------------------------------------------ strip and repack
StripTree_OnlyIfCodeSeen(tree, doc_type) ==
  IF report_data.vba_code \in {PLACEHOLDER_NO_OLETOOLS, PLACEHOLDER_NO_CODE}
  THEN tree
  ELSE Unlink(Unlink(tree, vba_paths[doc_type]), RelsOf(vba_paths[doc_type]))

\* lines 363-368: the macro stream and its .rels are deleted
StripTree(tree, doc_type) ==
  Unlink(Unlink(tree, vba_paths[doc_type]), RelsOf(vba_paths[doc_type]))

FoundRecord_HashedEarly(rd, size) ==
  [rd EXCEPT !.vba_found = TRUE, !.vba_size = size, !.output_md5 = rd.original_md5]

\* lines 374-375: what finding the macro stream writes to the record
FoundRecord(rd, size) == [rd EXCEPT !.vba_found = TRUE, !.vba_size = size]

copy2_KeepsExisting(src, dst) == IF dst.kind = "absent" THEN src ELSE dst

\* line 398: shutil.copy2(input_path, backup_path): the file at the destination
\* after the copy, whatever was there (dst) before
copy2(src, dst) == src

MakesBackup_Inverted(replace) == ~replace

\* line 395: whether the original is copied to <stem>_backup<ext>
MakesBackup(replace) == replace

\* lines 363-398: the stream is deleted, the manifest sanitized, the backup written
clean_Strip ==
  /\ pc = "strip"
  /\ LET tree == SanitizeTree(StripTree(extracted, DocType(extracted)))
         rd == FoundRecord(report_data, vba_size)
         backup_path == BackupPath(input_path)
     IN  \/ /\ ToExcept(report_data, "unlink failed")
            /\ UNCHANGED <<fs, extracted, last_vba_size>>
         \/ /\ ~MakesBackup(replace_original)
            /\ extracted' = tree
            /\ last_vba_size' = vba_size
            /\ report_data' = rd
            /\ pc' = "repack"
            /\ UNCHANGED <<fs, err, faults>>
         \/ /\ MakesBackup(replace_original)
            /\ extracted' = tree
            /\ last_vba_size' = vba_size
            /\ fs' = [fs EXCEPT ![backup_path] = copy2(fs[input_path], @)]
            /\ report_data' = rd
            /\ pc' = "repack"
            /\ UNCHANGED <<err, faults>>
         \/ /\ MakesBackup(replace_original)
            /\ extracted' = tree
            /\ last_vba_size' = vba_size
            /\ fs' = [fs EXCEPT ![backup_path] = Partial]
            /\ ToExcept(rd, "copy2 failed")
  /\ UNCHANGED <<tempDir, tempBin, oletools, olevba, report_history, vba_size,
                 vba_bin_path, ret, saved>>
  /\ CallFrame

repack_docx_TopLevelOnly(tree) ==
  [kind |-> "zip", tree |-> [n \in {m \in DOMAIN tree : TopDir(m) = ""} |-> tree[n]],
   by |-> "repack"]

\* _repack_docx: every file of the working directory, under its relative path
repack_docx(tree) == [kind |-> "zip", tree |-> tree, by |-> "repack"]

\* lines 399-429: the repack onto the original path, the check that it is there.
\* Line 405 finds the output missing only if something else removed it; the
\* branch of lines 426-429 is never taken (vba_found is true here).
clean_Repack ==
  /\ pc = "repack"
  /\ LET t == Texts(is_english)
         out == repack_docx(extracted)
         rd == [report_data EXCEPT
                  !.status = t.status_success,
                  !.output_path = <<input_path>>,
                  !.output_md5 = get_file_meta(out),
                  !.message = IF replace_original
                              THEN Format(t.msg_macro_cleared_replace, "")
                              ELSE Format(t.msg_macro_cleared, ToString(vba_size))]
     IN  \/ /\ fs' = [fs EXCEPT ![input_path] = out]
            /\ ToSave(rd, "MacroCleared")
            /\ UNCHANGED <<err, faults>>
         \/ /\ fs' = [fs EXCEPT ![input_path] = Partial]
            /\ ToExcept(report_data, "zip write failed")
            /\ UNCHANGED ret
         \/ /\ CanFault
            /\ faults' = faults + 1
            /\ fs' = [fs EXCEPT ![input_path] = Absent]
            /\ ToSave([report_data EXCEPT !.message = Format(t.msg_save_failed, "")],
                      "SaveFailed")
            /\ UNCHANGED err
  /\ UNCHANGED <<tempDir, extracted, tempBin, oletools, olevba, report_history,
                 last_vba_size, vba_size,
                 vba_bin_path, saved>>
  /\ CallFrame

\* ------------------------------------------------------------ record and exit
TempDirAfter_OnReturnOnly(how, dir) == IF how = "return" THEN FALSE ELSE dir

\* lines 435-438: shutil.rmtree(temp_dir, ignore_errors=True) in the finally block:
\* on a return of the try block ("return"), on the handler's return ("except") and
\* on an exception that escapes the handler ("raise")
TempDirAfter(how, dir) == FALSE

\* _save_report: report_data itself is appended, not a copy of it
save_report(history, rd) == Append(history, rd)

\* "_save_report([report_data], generate_report); return r" inside the try block:
\* the record is appended, then the report is generated if asked for, which may raise
clean_Save ==
  /\ pc = "save"
  /\ report_history' = save_report(report_history, report_data)
  /\ saved' = saved \cup {Len(report_history) + 1}
  /\ \/ /\ pc' = "returned"
        /\ tempDir' = TempDirAfter("return", tempDir)
        /\ UNCHANGED <<err, faults, wpc>>
     \/ /\ generate_report
        /\ CanFault
        /\ faults' = faults + 1
        /\ err' = "report failed"
        /\ pc' = "except"
        /\ UNCHANGED <<tempDir, wpc>>
  /\ UNCHANGED <<fs, extracted, tempBin, oletools, olevba, last_vba_size, gui, file_paths, i, sun_count,
                 total_vba_size, finished_result, input_path, report_data, vba_size,
                 vba_bin_path, ret, fs0, calls, sanitizer, window, pairing>>

\* lines 430-438: the handler sets the message on report_data (the object that
\* report_history may hold already), saves it and returns 0; if the report
\* generation raises here, the exception leaves clean_vba_macro and ends the worker.
\* A report that could not be written in the try block and cannot be written
\* here either is one error condition (the report's directory), not two.
clean_Except ==
  /\ pc = "except"
  /\ LET t == Texts(is_english)
         rd == [report_data EXCEPT !.message = Format(t.msg_exception, err)]
         aliased == [k \in DOMAIN report_history |->
                       IF k \in saved THEN rd ELSE report_history[k]]
     IN  /\ report_data' = rd
         /\ report_history' = save_report(aliased, rd)
  /\ saved' = saved \cup {Len(report_history) + 1}
  /\ \/ /\ ret' = ReturnOf("Exception")
        /\ pc' = "returned"
        /\ tempDir' = TempDirAfter("except", tempDir)
        /\ UNCHANGED <<faults, wpc>>
     \/ /\ generate_report
        /\ err = "report failed" \/ CanFault
        /\ faults' = IF err = "report failed" THEN faults ELSE faults + 1
        /\ pc' = "raised"
        /\ wpc' = "crashed"
        /\ tempDir' = TempDirAfter("raise", tempDir)
        /\ UNCHANGED ret
  /\ UNCHANGED <<fs, extracted, tempBin, oletools, olevba, last_vba_size, gui, file_paths, i, sun_count,
                 total_vba_size, finished_result, input_path, vba_size, vba_bin_path,
                 err, fs0, calls, sanitizer, window, pairing>>

Next ==
  \/ on_push_button_clicked
  \/ run_Call
  \/ run_Next
  \/ run_Finish
  \/ clean_Start
  \/ clean_Unpack
  \/ clean_Classify
  \/ extract_Whole
  \/ extract_Bin
  \/ clean_Strip
  \/ clean_Repack
  \/ clean_Save
  \/ clean_Except

Spec == Init /\ [][Next]_vars

\* ------------------------------------------------------------ _clean_content_types alone
\* every text of at most MaxText pieces
ManifestTexts == UNION {[1..n -> Pieces] : n \in 0..MaxText}

\* a working directory whose [Content_Types].xml is any text, is missing or is
\* not readable; no document is being cleaned
InitSanitizer ==
  /\ manifest \in ManifestTexts \cup {Missing, Unreadable}
  /\ manifest0 = manifest
  /\ applied = 0
  /\ fs = [p \in Paths |-> IF p \in {P_x, P_u} THEN Raw ELSE Absent]
  /\ replace_original = FALSE
  /\ generate_report = FALSE
  /\ is_english = FALSE
  /\ file_paths = <<P_x>>
  /\ InitProcess
  /\ Unpaired

\* lines 441-463: one call of _clean_content_types(extract_path); an exception
\* of read_text is swallowed at line 462 and nothing is written
sanitize_Apply ==
  /\ applied < MaxApply
  /\ manifest' = clean_content_types(manifest)
  /\ applied' = applied + 1
  /\ UNCHANGED <<fs, tempDir, extracted, tempBin, oletools, olevba, report_history,
                 last_vba_size, gui, worker, pc, input_path, report_data, vba_size,
                 vba_bin_path, ret, err, saved, fs0, faults, calls, manifest0, window, pairing>>

NextSanitizer == sanitize_Apply

SpecSanitizer == InitSanitizer /\ [][NextSanitizer]_vars

\* ------------------------------------------------------------ the window and its workers
\* what a call reads and writes besides the worker's own fields
call == <<fs, tempDir, extracted, tempBin, oletools, olevba, report_history,
          last_vba_size, pc, input_path, report_data, vba_size, vba_bin_path, ret,
          err, saved, fs0, faults, calls>>

\* a signal on its way to a slot of the window (a queued connection: the
\* emitter is a worker thread, the receiver lives in the GUI thread)
Signal(sig, n, paths) == [sig |-> sig, n |-> n, paths |-> paths]

\* a file is there
Exists(dir, p) == dir[p].kind # "absent"

\* ext in OFFICE_EXTENSIONS, lines 25-28 and 50-52
OFFICE_EXTENSIONS ==
  {".docm", ".dotm", ".xlsm", ".xltm", ".pptm", ".potm", ".doc", ".xls", ".ppt", ".xlsx"}

\* the place of a path in sorted(..., key=rel_path.lower()): "a.xlsm" < "a_backup.xlsm"
\* < "b.dat" < "b.xlsx"
Rank(p) ==
  CASE p = P_a -> "1"
    [] p = P_abak -> "2"
    [] p = P_u -> "3"
    [] OTHER -> "4"

Before(p, q) == <<Rank(p), Rank(q)>> \in
  {<<"1", "2">>, <<"1", "3">>, <<"1", "4">>, <<"2", "3">>, <<"2", "4">>, <<"3", "4">>}

RECURSIVE Sorted(_)
Sorted(S) ==
  IF S = {} THEN <<>>
  ELSE LET first == CHOOSE p \in S : \A q \in S \ {p} : Before(p, q)
       IN  <<first>> \o Sorted(S \ {first})

Keys(m) == {m[k] : k \in DOMAIN m}

\* lines 287-297: the found paths that are not listed yet are listed, sorted
apply_folder_scan_result(m, found) == m \o Sorted(found \ Keys(m))

\* lines 319-325: a path that is listed already is not listed again
add_file_to_tree(m, p) == IF p \in Keys(m) THEN m ELSE Append(m, p)

SetEnabledWhileCleaning_Forgotten == TRUE

\* line 163: self.ui.pushButton.setEnabled(False)
SetEnabledWhileCleaning == FALSE

\* lines 162-178: the button is disabled, a CleanMacroWorker is made with the
\* list and the two check boxes, moved to a new thread, and the thread started
StartWorker(paths, keep, report) ==
  /\ pushButton' = SetEnabledWhileCleaning
  /\ file_paths' = paths
  /\ replace_original' = keep
  /\ generate_report' = report
  /\ i' = 0
  /\ sun_count' = 0
  /\ total_vba_size' = 0
  /\ finished_result' = <<>>
  /\ wpc' = "running"
  /\ running' = running + 1
  /\ UNCHANGED <<call, is_english, sanitizer, pairing, file_path_map, pushButton_2, spc,
                 to_add, queue>>

\* Widget._on_push_button_clicked, lines 143-161: a click on the enabled button
\* while no modal dialog holds the window. With the keep-original box checked
\* the worker is started; else the confirm box opens and the handler waits in
\* msg.exec() with its list
click_Start ==
  /\ pushButton
  /\ dialog = "none"
  /\ file_path_map # <<>>
  /\ Len(file_path_map) <= MaxCalls - calls
  /\ \E keep, report \in BOOLEAN :
       IF keep
       THEN /\ StartWorker(file_path_map, TRUE, report)
            /\ UNCHANGED <<dialog, clicked_paths>>
       ELSE /\ dialog' = "confirm"
            /\ clicked_paths' = file_path_map
            /\ UNCHANGED <<call, gui, worker, sanitizer, pairing, file_path_map, pushButton,
                           pushButton_2, spc, to_add, queue, running>>

\* lines 159-178: the confirm box is answered
click_Confirm ==
  /\ dialog = "confirm"
  /\ dialog' = "none"
  /\ clicked_paths' = <<>>
  /\ \/ \E report \in BOOLEAN : StartWorker(clicked_paths, FALSE, report)
     \/ UNCHANGED <<call, gui, worker, sanitizer, pairing, file_path_map, pushButton,
                    pushButton_2, spc, to_add, queue, running>>

\* CleanMacroWorker.run, lines 78-80: the call has returned, progress is emitted
run_NextEmit ==
  /\ run_NextStep
  /\ queue' = Append(queue, Signal("clean_progress", i + 1, {}))
  /\ UNCHANGED <<file_path_map, pushButton, pushButton_2, dialog, clicked_paths,
                 spc, to_add, running>>

\* CleanMacroWorker.run, line 81: finished_result is emitted and run ends
run_FinishEmit ==
  /\ run_FinishStep
  /\ queue' = Append(queue, Signal("clean_finished", sun_count, {}))
  /\ running' = running - 1
  /\ UNCHANGED <<file_path_map, pushButton, pushButton_2, dialog, clicked_paths,
                 spc, to_add>>

\* Widget._on_select_path_clicked, lines 331-340: the select box opens
select_Open ==
  /\ pushButton_2
  /\ dialog = "none"
  /\ dialog' = "select"
  /\ UNCHANGED <<call, gui, worker, sanitizer, pairing, file_path_map, pushButton,
                 pushButton_2, clicked_paths, spc, to_add, queue, running>>

\* lines 342-355: a folder is chosen: the button is disabled and a
\* ScanFolderWorker started
select_Folder ==
  /\ dialog = "select"
  /\ dialog' = "none"
  /\ pushButton_2' = FALSE
  /\ spc' = "walk"
  /\ to_add' = {}
  /\ UNCHANGED <<call, gui, worker, sanitizer, pairing, file_path_map, pushButton,
                 clicked_paths, queue, running>>

\* lines 356-366: a file is chosen (the file dialog offers the files that are
\* there), or the box is cancelled
select_File ==
  /\ dialog = "select"
  /\ dialog' = "none"
  /\ \/ \E p \in InputPaths :
          /\ Exists(fs, p)
          /\ file_path_map' = add_file_to_tree(file_path_map, p)
     \/ UNCHANGED file_path_map
  /\ UNCHANGED <<call, gui, worker, sanitizer, pairing, pushButton, pushButton_2,
                 clicked_paths, spc, to_add, queue, running>>

\* ScanFolderWorker.run, lines 46-54: os.walk lists the folder, the files with
\* an Office extension are kept, progress is emitted
scan_Walk ==
  /\ spc = "walk"
  /\ LET found == {p \in InputPaths : Exists(fs, p) /\ Lower(p.ext) \in OFFICE_EXTENSIONS}
     IN  /\ to_add' = found
         /\ queue' = Append(queue, Signal("scan_progress", Cardinality(found), {}))
  /\ spc' = "listed"
  /\ UNCHANGED <<call, gui, worker, sanitizer, pairing, file_path_map, pushButton,
                 pushButton_2, dialog, clicked_paths, running>>

\* ScanFolderWorker.run, line 57: finished_result is emitted and run ends
scan_Finish ==
  /\ spc = "listed"
  /\ queue' = Append(queue, Signal("scan_finished", 0, to_add))
  /\ spc' = "idle"
  /\ to_add' = {}
  /\ UNCHANGED <<call, gui, worker, sanitizer, pairing, file_path_map, pushButton,
                 pushButton_2, dialog, clicked_paths, running>>

\* the event loop of the GUI thread (also the one msg.exec() runs) delivers the
\* oldest signal to its slot
Delivered(sig) ==
  /\ queue # <<>>
  /\ Head(queue).sig = sig
  /\ queue' = Tail(queue)

\* Widget._on_clean_progress, lines 180-181, and _on_scan_folder_progress,
\* lines 304-310: the progress bar and the status text are set
on_progress ==
  /\ Delivered("clean_progress") \/ Delivered("scan_progress")
  /\ UNCHANGED <<call, gui, worker, sanitizer, pairing, file_path_map, pushButton,
                 pushButton_2, dialog, clicked_paths, spc, to_add, running>>

\* Widget._on_clean_finished, lines 183-190
on_clean_finished ==
  /\ Delivered("clean_finished")
  /\ pushButton' = TRUE
  /\ UNCHANGED <<call, gui, worker, sanitizer, pairing, file_path_map, pushButton_2,
                 dialog, clicked_paths, spc, to_add, running>>

\* Widget._on_scan_folder_finished, lines 312-318
on_scan_folder_finished ==
  /\ Delivered("scan_finished")
  /\ file_path_map' = apply_folder_scan_result(file_path_map, Head(queue).paths)
  /\ pushButton_2' = TRUE
  /\ UNCHANGED <<call, gui, worker, sanitizer, pairing, pushButton, dialog, clicked_paths,
                 spc, to_add, running>>

\* the window is shown on a directory that holds a macro-enabled a.xlsm, b.xlsx
\* and b.dat
InitGui ==
  /\ fs = [p \in Paths |->
             IF p = P_a THEN Zip([n \in {"word/vbaProject.bin", CONTENT_TYPES} |-> InitContent(n)])
             ELSE IF p \in {P_x, P_u} THEN Raw
             ELSE Absent]
  /\ replace_original = FALSE
  /\ generate_report = FALSE
  /\ is_english = FALSE
  /\ file_paths = <<>>
  /\ InitProcess
  /\ manifest = Missing
  /\ manifest0 = Missing
  /\ applied = 0
  /\ Unpaired

NextGui ==
  \/ click_Start
  \/ click_Confirm
  \/ select_Open
  \/ select_Folder
  \/ select_File
  \/ scan_Walk
  \/ scan_Finish
  \/ on_progress
  \/ on_clean_finished
  \/ on_scan_folder_finished
  \/ run_Call
  \/ run_NextEmit
  \/ run_FinishEmit
  \/ clean_Start
  \/ clean_Unpack
  \/ clean_Classify
  \/ extract_Whole
  \/ extract_Bin
  \/ clean_Strip
  \/ clean_Repack
  \/ clean_Save
  \/ clean_Except

SpecGui == InitGui /\ [][NextGui]_vars

\* ------------------------------------------------------------ two locales side by side
\* Two runs that differ in is_english only are compared step by step: run A
\* takes a step, then the state goes back to where the step began, seen in the
\* other locale, and run B has to take the step that leads to what A reached,
\* seen in the other locale.

\* what the program holds: everything the worker and a call read or write
Snap ==
  [fs |-> fs, tempDir |-> tempDir, extracted |-> extracted, tempBin |-> tempBin,
   oletools |-> oletools, olevba |-> olevba, report_history |-> report_history,
   last_vba_size |-> last_vba_size, replace_original |-> replace_original,
   generate_report |-> generate_report, is_english |-> is_english,
   file_paths |-> file_paths, i |-> i, sun_count |-> sun_count,
   total_vba_size |-> total_vba_size, wpc |-> wpc,
   finished_result |-> finished_result, pc |-> pc, input_path |-> input_path,
   report_data |-> report_data, vba_size |-> vba_size, vba_bin_path |-> vba_bin_path,
   ret |-> ret, err |-> err, saved |-> saved, fs0 |-> fs0, faults |-> faults,
   calls |-> calls]

\* lines 26-117: the entry of the other catalog under the same key; a text that
\* is in no catalog (a path, str(e), a size) is the same in both runs
OtherText(text, en) ==
  IF \E k \in DOMAIN TEXTS_ZH : Texts(en)[k] = text
  THEN Texts(~en)[CHOOSE k \in DOMAIN TEXTS_ZH : Texts(en)[k] = text]
  ELSE text

\* a record as the run in the other locale writes it: status and the template of
\* message from the other catalog, the is_english entry (line 285) the other flag
OtherRecord(rd) ==
  [rd EXCEPT !.status = OtherText(@, rd.is_english),
             !.message = <<OtherText(@[1], rd.is_english), @[2]>>,
             !.is_english = ~@]

\* a state as the run in the other locale has it (report_data is the record of a
\* call from line 268 on, nothing before)
Other(sn) ==
  [sn EXCEPT !.is_english = ~@,
             !.report_data = IF sn.pc \in {"none", "start"} THEN @ ELSE OtherRecord(@),
             !.report_history = [k \in DOMAIN @ |-> OtherRecord(@[k])]]

\* the program is put into state sn
Restore(sn) ==
  /\ fs' = sn.fs
  /\ tempDir' = sn.tempDir
  /\ extracted' = sn.extracted
  /\ tempBin' = sn.tempBin
  /\ oletools' = sn.oletools
  /\ olevba' = sn.olevba
  /\ report_history' = sn.report_history
  /\ last_vba_size' = sn.last_vba_size
  /\ replace_original' = sn.replace_original
  /\ generate_report' = sn.generate_report
  /\ is_english' = sn.is_english
  /\ file_paths' = sn.file_paths
  /\ i' = sn.i
  /\ sun_count' = sn.sun_count
  /\ total_vba_size' = sn.total_vba_size
  /\ wpc' = sn.wpc
  /\ finished_result' = sn.finished_result
  /\ pc' = sn.pc
  /\ input_path' = sn.input_path
  /\ report_data' = sn.report_data
  /\ vba_size' = sn.vba_size
  /\ vba_bin_path' = sn.vba_bin_path
  /\ ret' = sn.ret
  /\ err' = sn.err
  /\ saved' = sn.saved
  /\ fs0' = sn.fs0
  /\ faults' = sn.faults
  /\ calls' = sn.calls

\* run A is about to take a step: the state it starts from, in the other locale,
\* is kept for run B
pair_Mark ==
  /\ mode = "free"
  /\ mode' = "A"
  /\ pre' = Other(Snap)
  /\ UNCHANGED <<call, gui, worker, sanitizer, window, target>>

\* run A takes a step of the program
pair_StepA ==
  /\ mode = "A"
  /\ Other(Snap) = pre
  /\ Next

\* run A has stepped: what it reached, in the other locale, is what run B has to
\* reach; run B stands where A's step began
pair_Rewind ==
  /\ mode = "A"
  /\ Other(Snap) # pre
  /\ mode' = "B"
  /\ target' = Other(Snap)
  /\ Restore(pre)
  /\ UNCHANGED <<pre, sanitizer, window>>

\* run B takes the step that matches A's
pair_StepB ==
  /\ mode = "B"
  /\ Snap = pre
  /\ Next
  /\ Snap' = target

\* both runs have stepped: the next step is compared from here
pair_Release ==
  /\ mode = "B"
  /\ Snap = target
  /\ mode' = "free"
  /\ pre' = NoSnap
  /\ target' = NoSnap
  /\ UNCHANGED <<call, gui, worker, sanitizer, window>>

\* a batch of one or two of the files of a directory that holds b.xlsx, b.dat
\* and any a.xlsm
InitLocale ==
  /\ fs \in {d \in InitDirs : d[P_abak] = Absent}
  /\ replace_original \in BOOLEAN
  /\ generate_report \in BOOLEAN
  /\ is_english \in BOOLEAN
  /\ file_paths \in {b \in Batches : b[1] = P_a}
  /\ InitProcess
  /\ manifest = Missing
  /\ manifest0 = Missing
  /\ applied = 0
  /\ mode = "free"
  /\ pre = NoSnap
  /\ target = NoSnap

NextLocale ==
  \/ pair_Mark
  \/ pair_StepA
  \/ pair_Rewind
  \/ pair_StepB
  \/ pair_Release

SpecLocale == InitLocale /\ [][NextLocale]_vars

\* ------------------------------------------------------------ two parsers
\* the places of a call after _extract_vba_code has returned (line 363 on)
AfterExtraction == {"strip", "repack", "save", "except", "returned", "raised"}

\* every text _extract_vba_code returns on the parsers of the model
ExtractedTexts ==
  {PLACEHOLDER_NO_OLETOOLS, PLACEHOLDER_NO_CODE}
    \cup {PlaceholderFailed(ParserError(p.whole)) :
            p \in {q \in PipelineParsers : ParserRaises(q.whole)}}
    \cup {JoinOrPlaceholder(extract_vba_from_parser(p.whole)) : p \in PipelineParsers}
    \cup {JoinOrPlaceholder(extract_vba_from_parser(p.bin)) : p \in PipelineParsers}

\* state sn had _extract_vba_code returned code, with the library installed or
\* not (ole) and the parser's behaviour on record in seen
Variant(sn, code, ole, seen) ==
  [sn EXCEPT !.report_data = [@ EXCEPT !.vba_code = code],
             !.report_history =
                [k \in DOMAIN @ |->
                   IF k \in sn.saved THEN [@[k] EXCEPT !.vba_code = code] ELSE @[k]],
             !.oletools = ole,
             !.olevba = seen]

\* a state without what _extract_vba_code leaves behind: the vba_code of its
\* records, the import, the parser's behaviour, the name of the stream it read
Forget(sn) ==
  [sn EXCEPT !.report_data = [@ EXCEPT !.vba_code = <<>>],
             !.report_history = [k \in DOMAIN @ |-> [@[k] EXCEPT !.vba_code = <<>>]],
             !.oletools = "unknown",
             !.olevba = {},
             !.vba_bin_path = "None"]

\* the run with the parser as it is takes a step from here
view_Mark ==
  /\ mode = "free"
  /\ mode' = "A"
  /\ pre' = Snap
  /\ UNCHANGED <<call, gui, worker, sanitizer, window, target>>

view_StepA ==
  /\ mode = "A"
  /\ Snap = pre
  /\ Next

\* a step taken before _extract_vba_code has returned is not compared
view_Skip ==
  /\ mode = "A"
  /\ Snap # pre
  /\ pre.pc \notin AfterExtraction
  /\ mode' = "free"
  /\ pre' = NoSnap
  /\ UNCHANGED <<call, gui, worker, sanitizer, window, target>>

\* the step began after _extract_vba_code returned: a second run stands where
\* it began, with any other result of the extraction
view_Rewind ==
  /\ mode = "A"
  /\ Snap # pre
  /\ pre.pc \in AfterExtraction
  /\ mode' = "B"
  /\ target' = Snap
  /\ \E code \in ExtractedTexts, ole \in {"installed", "missing"},
        seen \in {pre.olevba, {}} :
       /\ pre' = Variant(pre, code, ole, seen)
       /\ Restore(Variant(pre, code, ole, seen))
  /\ UNCHANGED <<sanitizer, window>>

\* the second run takes the step that matches
view_StepB ==
  /\ mode = "B"
  /\ Snap = pre
  /\ Next
  /\ Forget(Snap') = Forget(target)

\* both runs have stepped: the first run goes on
view_Release ==
  /\ mode = "B"
  /\ Snap # pre
  /\ mode' = "free"
  /\ pre' = NoSnap
  /\ target' = NoSnap
  /\ Restore(target)
  /\ UNCHANGED <<sanitizer, window>>

\* a.xlsm holds the macro stream of its document type; it is cleaned alone or
\* before b.xlsx
InitParser ==
  /\ fs \in {d \in InitDirs :
                /\ d[P_abak] = Absent
                /\ d[P_a].kind = "zip"
                /\ DocType(d[P_a].tree) # "None"
                /\ vba_paths[DocType(d[P_a].tree)] \in DOMAIN d[P_a].tree}
  /\ replace_original \in BOOLEAN
  /\ generate_report \in BOOLEAN
  /\ is_english = FALSE
  /\ file_paths \in {<<P_a>>, <<P_a, P_x>>}
  /\ InitProcess
  /\ manifest = Missing
  /\ manifest0 = Missing
  /\ applied = 0
  /\ mode = "free"
  /\ pre = NoSnap
  /\ target = NoSnap

NextParser ==
  \/ view_Mark
  \/ view_StepA
  \/ view_Skip
  \/ view_Rewind
  \/ view_StepB
  \/ view_Release

SpecParser == InitParser /\ [][NextParser]_vars

\* ------------------------------------------------------------ _extract_vba_code alone
\* a parser behaves in any way on the document and in any way on its stream
ExtractorParsers == [whole : ParserViews, bin : ParserViews]

\* _extract_vba_code(file_path) is called on a.xlsm (any file, or none) or on
\* a_backup.xlsm (no file), with a parser of any behaviour
extractor_Call ==
  /\ pc = "none"
  /\ calls < MaxCalls
  /\ \E p \in {P_a, P_abak}, q \in ExtractorParsers :
       /\ input_path' = p
       /\ olevba' = {[doc |-> fs[p], parser |-> q]}
       /\ report_data' = NewReport(p, is_english)
  /\ pc' = "extract"
  /\ calls' = calls + 1
  /\ UNCHANGED <<fs, tempDir, extracted, tempBin, oletools, report_history,
                 last_vba_size, vba_size, vba_bin_path, ret, err, saved, fs0, faults,
                 gui, worker, sanitizer, window, pairing>>

\* the text has been returned to the caller
extractor_Return ==
  /\ pc = "strip"
  /\ pc' = "none"
  /\ UNCHANGED <<fs, tempDir, extracted, tempBin, oletools, olevba, report_history,
                 last_vba_size, input_path, report_data, vba_size, vba_bin_path, ret,
                 err, saved, fs0, faults, calls, gui, worker, sanitizer, window,
                 pairing>>

InitExtractor ==
  /\ fs \in {d \in InitDirs : d[P_abak] = Absent}
  /\ replace_original = FALSE
  /\ generate_report = FALSE
  /\ is_english = FALSE
  /\ file_paths = <<P_a>>
  /\ InitProcess
  /\ manifest = Missing
  /\ manifest0 = Missing
  /\ applied = 0
  /\ Unpaired

NextExtractor ==
  \/ extractor_Call
  \/ extract_Whole
  \/ extract_Bin
  \/ extractor_Return

SpecExtractor == InitExtractor /\ [][NextExtractor]_vars

\* ------------------------------------------------------------ properties
\* the call has ended: it returned, or an exception left it
Exited == pc \in {"returned", "raised"}

\* the file at the input path when the call began, and now
Orig == fs0[input_path]
Now == fs[input_path]

MacroStreamNames == {_VBA_BIN_PATHS[k] : k \in DOMAIN _VBA_BIN_PATHS}

\* the pipeline finds a macro stream in file c at path p: p passes the extension
\* checks, c unpacks, and the stream of its document type is there
MacroFound(p, c) ==
  /\ Lower(p.ext) \in SUPPORTED_EXTS
  /\ c.kind = "zip"
  /\ DocType(c.tree) # "None"
  /\ vba_paths[DocType(c.tree)] \in DOMAIN c.tree

LastRecord == report_history[Len(report_history)]

\* record r is the record of the MacroCleared path (lines 410-425)
EndedMacroCleared(r) ==
  /\ r.status = Texts(r.is_english).status_success
  /\ r.message[1] \in {Texts(r.is_english).msg_macro_cleared_replace,
                       Texts(r.is_english).msg_macro_cleared}

\* record r is the record of the NoMacroFound path (lines 378-388)
EndedNoMacroFound(r) ==
  /\ r.status = Texts(r.is_english).status_success
  /\ r.message = Format(Texts(r.is_english).msg_no_macro_skip, "")

\* C1: once a call on a file that holds a macro stream has ended, the file at the
\* input path is the complete original or a complete repacked container (or
\* something else has removed it), never a partially written archive.
C1_NeverPartial ==
  (Exited /\ MacroFound(input_path, Orig))
    => \/ Now = Orig
       \/ Now.kind = "zip" /\ Now.by = "repack"
       \/ Now = Absent

\* C2 as stated: whenever a call with replace_original on a file in which the
\* macro stream is found has ended, <stem>_backup<ext> is the pre-clean original.
C2_BackupAlways ==
  (Exited /\ replace_original /\ MacroFound(input_path, Orig))
    => fs[BackupPath(input_path)] = Orig

\* C2, amended: with replace_original, every step that writes the input path
\* starts in a state where <stem>_backup<ext> is the pre-clean original, and a
\* call that ends with the input path written ends with that backup intact.
C2_BackupBeforeWrite ==
  [][/\ (replace_original /\ fs'[input_path] # fs[input_path])
          => fs[BackupPath(input_path)] = fs0[input_path]
     /\ (replace_original' /\ Exited' /\ fs'[input_path'] # fs0'[input_path'])
          => fs'[BackupPath(input_path')] = fs0'[input_path']]_vars

C2_Witness ==
  /\ pc = "returned"
  /\ replace_original
  /\ Orig.kind = "zip"
  /\ Now # Orig
  /\ Now.kind = "zip"
  /\ fs[BackupPath(input_path)] = Orig

\* C3: the file at the input path differs from what it was when the call began
\* only in calls where the macro stream was found in the unpacked container.
C3_WriteOnlyIfMacroFound ==
  (pc # "none" /\ Now # Orig) => MacroFound(input_path, Orig)

C3_Witness ==
  /\ pc = "returned"
  /\ err = ""
  /\ Lower(input_path.ext) \in SUPPORTED_EXTS
  /\ Orig.kind = "zip"
  /\ DocType(Orig.tree) # "None"
  /\ ~MacroFound(input_path, Orig)
  /\ EndedNoMacroFound(LastRecord)
  /\ Now = Orig

\* C4: when a call has ended, it has made report_history longer by exactly one
\* record.
C4_OneRecordPerCall == Exited => Cardinality(saved) = 1

\* C5: no exception leaves clean_vba_macro to the batch loop, and when
\* finished_result is emitted every path of the batch has been processed and the
\* sum of the return values is what is emitted.
C5_BatchNeverAborts ==
  /\ pc # "raised"
  /\ wpc # "crashed"
  /\ finished_result # <<>>
       => (i = Len(file_paths) /\ finished_result = <<sun_count, total_vba_size>>)

C7_NoMacroStreamLeft ==
  (pc = "returned" /\ err = "" /\ EndedMacroCleared(LastRecord))
    => /\ Now.kind = "zip"
       /\ \A n \in DOMAIN Now.tree :
            /\ n \notin MacroStreamNames
            /\ InitContent(n) # "rels"

\* C8: a call on the output of a call that ended MacroCleared reports Success with
\* the no-macro message, returns 0 and leaves the file as it was.
C8_Idempotent ==
  (/\ pc = "returned"
   /\ err = ""
   /\ Len(report_history) >= 2
   /\ report_history[Len(report_history) - 1].file_path = input_path
   /\ EndedMacroCleared(report_history[Len(report_history) - 1])
   /\ Orig.by = "repack")
    => /\ EndedNoMacroFound(LastRecord)
       /\ ret = 0
       /\ Now = Orig

\* C9: the temporary working directory is gone whenever no call is running or the
\* call has ended, however it ended.
C9_TempDirGone == (pc = "none" \/ Exited) => ~tempDir

C9_Witness ==
  /\ Exited
  /\ err \in {"extractall failed", "unlink failed", "copy2 failed", "zip write failed"}
  /\ ~tempDir

\* C10: outside the part of _extract_vba_code that works on the temporary
\* macro-stream file, that file does not exist: it is gone when the function returns.
C10_TempBinGone == pc # "extract_bin" => ~tempBin

C10_Witness ==
  /\ pc = "strip"
  /\ vba_bin_path # "None"
  /\ report_data.vba_code = PLACEHOLDER_NO_CODE
  /\ \E e \in olevba : e.doc = Now /\ ParserRaises(e.parser.bin)
  /\ ~tempBin

\* C11: when the parser raised on the whole document, the extractor has still
\* tried the embedded stream (it named the stream to copy to the temporary file)
\* before it returned its placeholder.
C11_FallbackAfterRaise ==
  (/\ pc = "strip"
   /\ \E e \in olevba : e.doc = Now /\ ParserRaises(e.parser.whole))
    => vba_bin_path # "None"

\* C12: a call in which an exception was raised returns 0 and leaves a record with
\* status Failed whose message carries the error text.
C12_ExceptionIsFailed ==
  (pc = "returned" /\ err # "")
    => /\ ret = 0
       /\ LastRecord.status = Texts(is_english).status_fail
       /\ LastRecord.message = Format(Texts(is_english).msg_exception, err)

\* C13: report_history only grows at its end: every step leaves the records it
\* already holds in place and unchanged.
C13_AppendOnly ==
  [][/\ Len(report_history') >= Len(report_history)
     /\ \A k \in DOMAIN report_history : report_history'[k] = report_history[k]]_vars

\* C15: in a call with generate_report false the macro extractor is not invoked
\* and vba_code of the record stays empty.
C15_ExtractOnlyIfRequested ==
  ~generate_report
    => /\ pc \notin {"extract", "extract_bin"}
       /\ report_data.vba_code = <<>>

\* C16 as stated: whenever the record of the running call holds an output hash,
\* the repack of that call has completed and its output is at the input path.
C16_HashOnlyAfterRepack ==
  (pc # "none" /\ report_data.output_md5 # NoMd5)
    => (Now # Orig /\ Now.kind = "zip" /\ Now.by = "repack")

\* C16, amended: in a call that finds the macro stream the record holds an output
\* hash only once the repack has completed, and it is the hash of the repacked
\* file; in any other call the record holds an output hash only on the two
\* no-macro paths, and it is the hash of the untouched input.
C16_HashAfterRepackOrUntouched ==
  (pc # "none" /\ report_data.output_md5 # NoMd5)
    => IF MacroFound(input_path, Orig)
       THEN /\ pc \in {"save", "except", "returned", "raised"}
            /\ Now = repack_docx(SanitizeTree(StripTree(Orig.tree, DocType(Orig.tree))))
            /\ report_data.output_md5 = get_file_meta(Now)
       ELSE /\ Now = Orig
            /\ report_data.output_md5 = get_file_meta(Orig)
            /\ report_data.status = Texts(is_english).status_success

C16_Witness ==
  /\ pc = "returned"
  /\ err = ""
  /\ MacroFound(input_path, Orig)
  /\ Now # Orig
  /\ LastRecord.output_md5 = get_file_meta(Now)
  /\ LastRecord.original_md5 = get_file_meta(Orig)

Heads == {"OW", "OX", "OP", "DB", "OWr", "OU", "DU"}
MacroHeads == {"OW", "OX", "OP", "DB", "OWr"}

\* a manifest as an XML writer makes it: declarations, each a head and its end
\* ("/>" or an end tag), with or without line feeds between them
RECURSIVE WellFormed(_)
WellFormed(t) ==
  IF t = <<>> THEN TRUE
  ELSE IF t[1] = "NL" THEN WellFormed(Tail(t))
  ELSE /\ Len(t) >= 2
       /\ t[1] \in Heads
       /\ t[2] \in {"E", "CL"}
       /\ WellFormed(SubSeq(t, 3, Len(t)))

\* the declarations of a text that are no macro declarations, in order, each with
\* its end
RECURSIVE UnrelatedDecls(_)
UnrelatedDecls(t) ==
  IF Len(t) < 2 THEN <<>>
  ELSE IF t[1] \in {"OU", "DU"} /\ t[2] \in {"E", "CL"}
       THEN <<SubSeq(t, 1, 2)>> \o UnrelatedDecls(SubSeq(t, 3, Len(t)))
       ELSE UnrelatedDecls(Tail(t))

\* C18: after _clean_content_types has run on a readable manifest, no Override
\* of a vbaProject.bin part and no Default of the bin extension is left in it,
\* in whatever form the declaration was written.
C18_NoMacroDeclLeft ==
  (applied >= 1 /\ WellFormed(manifest0))
    => \A k \in DOMAIN manifest : manifest[k] \notin MacroHeads

\* C19: _clean_content_types removes macro declarations only: the other
\* declarations of the manifest are all still there afterwards, unchanged and in
\* the same order.
C19_OnlyMacroDeclsRemoved ==
  (applied >= 1 /\ WellFormed(manifest0))
    => UnrelatedDecls(manifest) = UnrelatedDecls(manifest0)

\* C20: _clean_content_types applied twice to any manifest text gives what one
\* application gives, and a manifest that is missing stays missing.
C20_Idempotent ==
  /\ applied = 2 => manifest = clean_content_types(manifest0)
  /\ manifest0 = Missing => manifest = Missing


\* ------------------------------------------------------------ window properties
\* a step of ScanFolderWorker.run
ScanStep == spc' # spc

\* C14: whatever the order of clicks, scans, progress and finished signals, at
\* most one CleanMacroWorker is between its start and the end of its run, so at
\* most one clean_vba_macro call executes and the history has one writer; and no
\* step of the folder-scan worker changes anything the cleaning worker or a
\* call reads or writes.
C14_OneCleanerAtATime ==
  [][/\ running' <= 1
     /\ pc' # "none" => running' = 1
     /\ ScanStep => UNCHANGED <<call, gui, worker>>]_vars

\* a call of a second batch is in progress while a scan has listed the folder
\* and signals wait for the window
C14_Witness ==
  /\ running = 1
  /\ pc \notin {"none", "returned", "raised"}
  /\ calls = 2
  /\ i = 0
  /\ spc = "listed"
  /\ queue # <<>>
  /\ pushButton_2 = FALSE


\* ------------------------------------------------------------ locale properties
\* C21: is_english does not steer the program: from the same state seen in the
\* other locale, the other run can take a step to the state this run reached,
\* seen in the other locale: the same place in the call, the same return value,
\* the same files, the same records but for the catalog the texts of status and
\* message come from (and the record's own is_english entry).
C21_LocaleBlind ==
  (mode = "B" /\ Snap = pre) => ENABLED (Next /\ Snap' = target)

\* both runs have ended a call that cleared a macro, one in each locale
C21_Witness ==
  /\ mode = "B"
  /\ Snap = target
  /\ pc = "returned"
  /\ ret = 1
  /\ LastRecord.status = Texts(is_english).status_success
  /\ OtherRecord(LastRecord).status = Texts(~is_english).status_success
  /\ LastRecord.status # OtherRecord(LastRecord).status
  /\ Now # Orig

\* ------------------------------------------------------------ dispatch properties
\* the call has returned 0 with a failure record carrying message template m
EndedFailed(m) ==
  /\ pc = "returned"
  /\ ret = 0
  /\ LastRecord.status = Texts(is_english).status_fail
  /\ LastRecord.message[1] = m

\* C22: a call on a document with a macro-capable extension and no macro stream
\* ends with return value 0, a Success record with the no-macro-skipped message,
\* the input path as output path, the input's hash as output hash, the file as
\* it was.
C22_NoMacroSkipped ==
  (/\ Exited
   /\ Lower(input_path.ext) \in SUPPORTED_EXTS
   /\ Orig.kind = "zip"
   /\ DocType(Orig.tree) # "None"
   /\ MacroStreamNames \cap DOMAIN Orig.tree = {})
    => /\ pc = "returned"
       /\ ret = 0
       /\ EndedNoMacroFound(LastRecord)
       /\ LastRecord.output_path = <<input_path>>
       /\ LastRecord.output_md5 = get_file_meta(Orig)
       /\ Now = Orig

\* C23: a call on a file with a macro-incapable extension never changes the
\* file, makes no temporary directory and no backup, and ends with return value
\* 0 and a Success record with the format-does-not-support-macros message and
\* the input path as output path.
C23_IncapableUntouched ==
  (pc # "none" /\ Lower(input_path.ext) \in NO_MACRO_EXTS /\ Orig.kind # "absent")
    => /\ Now = Orig
       /\ ~tempDir
       /\ fs[BackupPath(input_path)] = fs0[BackupPath(input_path)]
       /\ Exited =>
            /\ pc = "returned"
            /\ ret = 0
            /\ LastRecord.status = Texts(is_english).status_success
            /\ LastRecord.message = Format(Texts(is_english).msg_no_macro_format, "")
            /\ LastRecord.output_path = <<input_path>>

\* C24: the two extension lists are disjoint; a call on a path that does not
\* exist ends Failed with the file-not-found message whatever the extension; on
\* a file that exists, a macro-incapable extension ends Success, an extension
\* in neither list ends Failed with the unsupported-format message, and only a
\* macro-capable one goes on to unpack; each call that does not unpack returns
\* 0, does not raise and leaves the file as it was.
C24_StartDispatch ==
  LET ext == Lower(input_path.ext)
      t == Texts(is_english)
  IN  /\ SUPPORTED_EXTS \cap NO_MACRO_EXTS = {}
      /\ (pc # "none" /\ tempDir) => (Orig.kind # "absent" /\ ext \in SUPPORTED_EXTS)
      /\ (pc # "none" /\ (Orig.kind = "absent" \/ ext \notin SUPPORTED_EXTS))
           => (Now = Orig /\ pc # "raised")
      /\ (Exited /\ Orig.kind = "absent")
           => EndedFailed(t.msg_file_not_found)
      /\ (Exited /\ Orig.kind # "absent" /\ ext \in NO_MACRO_EXTS)
           => /\ pc = "returned"
              /\ ret = 0
              /\ LastRecord.status = t.status_success
      /\ (Exited /\ Orig.kind # "absent" /\ ext \notin NO_MACRO_EXTS \cup SUPPORTED_EXTS)
           => EndedFailed(t.msg_unsupported_format)

\* C25: a call on a file with a macro-capable extension that is no zip archive
\* ends Failed with the invalid-format message, one on an archive with none of
\* word/, xl/, ppt/ ends Failed with the unknown-document-type message; both
\* return 0 and leave the file as it was.
C25_InvalidOrUnknown ==
  LET t == Texts(is_english)
  IN  (Exited /\ Lower(input_path.ext) \in SUPPORTED_EXTS /\ Orig.kind # "absent")
        => /\ Orig.kind # "zip" => (EndedFailed(t.msg_invalid_format) /\ Now = Orig)
           /\ (Orig.kind = "zip" /\ DocType(Orig.tree) = "None")
                => (EndedFailed(t.msg_unknown_doc_type) /\ Now = Orig)

\* C26: a call whose repack leaves no readable archive at the output path (the
\* output is missing, or the write failed) ends Failed with the save-failed
\* message and return value 0.
C26_SaveFailed ==
  (Exited /\ MacroFound(input_path, Orig) /\ Now \in {Absent, Partial})
    => EndedFailed(Texts(is_english).msg_save_failed)

\* ------------------------------------------------------------ parser properties
\* the texts _extract_vba_code returns when it recovered no code
Placeholders ==
  {PLACEHOLDER_NO_OLETOOLS, PLACEHOLDER_NO_CODE}
    \cup {PlaceholderFailed(e) : e \in {"VBA_Parser failed", "extract_macros failed"}}

\* code is what a pass of the parser over the document recovered
Recovered(code, seen, doc) ==
  /\ code # <<>>
  /\ \E e \in seen :
       /\ e.doc = doc
       /\ code \in {Join(extract_vba_from_parser(e.parser.whole)),
                    Join(extract_vba_from_parser(e.parser.bin))}

\* C27: on a document with a macro stream, the parser (missing, raising at any
\* step, yielding nothing, yielding code) decides nothing but vba_code: the
\* extraction changes no other part of the state, and every later step of the
\* call and of the batch has the same status, message, return value and files
\* whatever the extraction returned; without code vba_code is a placeholder.
\* A step of _extract_vba_code changes nothing but what Forget leaves out (and
\* its own temporary file) and ends at line 363 with a placeholder or recovered
\* code in vba_code; from line 363 on the run can take the step the other run
\* took and reach the same state but for what Forget leaves out.
C27_ExtractionDecidesNothing ==
  /\ []((mode = "B" /\ Snap = pre)
          => ENABLED (Next /\ Forget(Snap') = Forget(target)))
  /\ [][(mode = "A" /\ mode' = "A" /\ pc \in {"extract", "extract_bin"})
          => /\ pc' \in {"extract_bin", "strip"}
             /\ [Forget(Snap') EXCEPT !.pc = "extract", !.tempBin = FALSE]
                  = [Forget(Snap) EXCEPT !.pc = "extract", !.tempBin = FALSE]
             /\ pc' = "strip" =>
                  /\ ~tempBin'
                  /\ \/ report_data'.vba_code \in Placeholders
                     \/ Recovered(report_data'.vba_code, olevba', fs[input_path])]_vars

\* two runs have ended MacroCleared with the same file, one with recovered
\* code in the record, the other with a placeholder
C27_Witness ==
  /\ mode = "B"
  /\ Snap # pre
  /\ pc = "returned"
  /\ ret = 1
  /\ target.ret = 1
  /\ EndedMacroCleared(LastRecord)
  /\ Now = target.fs[input_path]
  /\ Now # Orig
  /\ LastRecord.vba_code \in Placeholders
  /\ target.report_history[Len(target.report_history)].vba_code \notin Placeholders

\* C28: _extract_vba_code returns for every path and every parser (no input
\* leaves it without a way on), what it returns is a text: recovered code or a
\* placeholder; it is the install-oletools placeholder exactly when the import
\* failed, and that placeholder is not the no-visible-code placeholder.
C28_ExtractorTotal ==
  /\ PLACEHOLDER_NO_OLETOOLS # PLACEHOLDER_NO_CODE
  /\ pc \in {"none", "extract", "extract_bin", "strip"}
  /\ pc = "extract" => ENABLED extract_Whole
  /\ pc = "extract_bin" => ENABLED extract_Bin
  /\ pc = "strip" =>
       /\ ~tempBin
       /\ \/ report_data.vba_code \in Placeholders
          \/ Recovered(report_data.vba_code, olevba, fs[input_path])
       /\ report_data.vba_code = PLACEHOLDER_NO_OLETOOLS <=> oletools = "missing"

\* a second call, with the library imported, on an archive where the parser
\* finds nothing in the document and raises on the stream, has returned the
\* no-visible-code placeholder
C28_Witness ==
  /\ pc = "strip"
  /\ calls = 2
  /\ oletools = "installed"
  /\ input_path = P_a
  /\ fs[P_a].kind = "zip"
  /\ report_data.vba_code = PLACEHOLDER_NO_CODE
  /\ \E e \in olevba : e.parser.whole = V_nothing /\ ParserRaises(e.parser.bin)

\* ------------------------------------------------------------ size properties
\* the byte size of the macro stream of its document type stored in container c
StoredMacroSize(c) == StSize(c.tree[vba_paths[DocType(c.tree)]])

\* the sum of vba_size over a set of records
RECURSIVE SumSizes(_)
SumSizes(S) ==
  IF S = {} THEN 0
  ELSE LET r == CHOOSE x \in S : TRUE
       IN  r.vba_size + SumSizes(S \ {r})

\* C29: when a call has returned, get_last_vba_size() is the size of the macro
\* stream the call cleared if it returned 1 and 0 if it returned 0; the total the
\* worker emits is the sum of vba_size over the files that ended MacroCleared.
C29_LastSizeOfThisCall ==
  /\ pc = "returned" =>
       last_vba_size = IF ret = 1 THEN StoredMacroSize(Orig) ELSE 0
  /\ finished_result # <<>> => finished_result[2] =
         SumSizes({report_history[k] :
                     k \in {j \in DOMAIN report_history :
                              EndedMacroCleared(report_history[j])}})

\* C30: the record of a call that ended MacroCleared has vba_found true and the
\* byte size of the macro stream stored in the input container as vba_size; the
\* record of a call that found no macro stream has vba_found false and vba_size 0.
C30_SizeOfStoredStream ==
  /\ (pc = "returned" /\ ret = 1)
       => /\ LastRecord.vba_found
          /\ LastRecord.vba_size = StoredMacroSize(Orig)
  /\ (Exited /\ ~MacroFound(input_path, Orig))
       => /\ ~LastRecord.vba_found
          /\ LastRecord.vba_size = 0

\* a second call has ended on a file without macro stream, after a call without
\* replace_original that cleared a stream of 4096 bytes
C30_Witness ==
  /\ pc = "returned"
  /\ calls = 2
  /\ ~MacroFound(input_path, Orig)
  /\ ~LastRecord.vba_found
  /\ LastRecord.vba_size = 0
  /\ \E k \in DOMAIN report_history :
       /\ EndedMacroCleared(report_history[k])
       /\ report_history[k].vba_found
       /\ report_history[k].vba_size = 4096
       /\ report_history[k].file_path = P_a
  /\ ~replace_original

StrategyOutputs(v) ==
  <<NonEmpty(v.macros),
    IF v.has_all /\ ~v.all_raises /\ v.all_code # "" THEN <<v.all_code>> ELSE <<>>,
    NonEmpty(v.projects)>>

\* the output of the first strategy that yielded text, <<>> if none did
FirstYield(outs) ==
  IF \E k \in DOMAIN outs : outs[k] # <<>>
  THEN outs[CHOOSE k \in DOMAIN outs :
              outs[k] # <<>> /\ \A j \in 1..(k - 1) : outs[j] = <<>>]
  ELSE <<>>

\* the parser the call in progress works with
TheParser == (CHOOSE e \in olevba : e.doc = fs[input_path]).parser

C33_WritesOnlyInputAndBackup ==
  [][LET Written == {p \in Paths : fs'[p] # fs[p]}
     IN  /\ Written \subseteq {input_path, [input_path EXCEPT !.bk = @ + 1]}
         /\ [input_path EXCEPT !.bk = @ + 1] \in Written
              => (replace_original /\ MacroFound(input_path, fs0[input_path]))]_vars

\* a call without replace_original has ended MacroCleared: the input path holds
\* the repacked container and there is no file at <stem>_backup<ext>
C33_Witness ==
  /\ pc = "returned"
  /\ ret = 1
  /\ ~replace_original
  /\ Now # Orig
  /\ Now.kind = "zip"
  /\ fs0[BackupPath(input_path)] = Absent
  /\ fs[BackupPath(input_path)] = Absent
  /\ \A p \in Paths \ {input_path} : fs[p] = fs0[p]

\* ------------------------------------------------------------ family properties
\* lines 342-356: the macro stream of the first of the directories word, xl,
\* ppt that the container has, "None" if it has none of them
FamilyStream(tree) ==
  LET FamilyDirs == <<"word", "xl", "ppt">>
  IN  IF \E k \in DOMAIN FamilyDirs : DirExists(tree, FamilyDirs[k])
      THEN _VBA_BIN_PATHS[CHOOSE k \in DOMAIN FamilyDirs :
                            /\ DirExists(tree, FamilyDirs[k])
                            /\ \A j \in 1..(k - 1) : ~DirExists(tree, FamilyDirs[j])]
      ELSE "None"

\* the call began on a container with a macro-capable extension whose first
\* family has no macro stream while a later family has one
LowerStreamOnly ==
  /\ pc # "none"
  /\ Lower(input_path.ext) \in SUPPORTED_EXTS
  /\ Orig.kind = "zip"
  /\ FamilyStream(Orig.tree) # "None"
  /\ FamilyStream(Orig.tree) \notin DOMAIN Orig.tree
  /\ MacroStreamNames \cap DOMAIN Orig.tree # {}

====
